---- MODULE Spec2Model ----
(***************************************************************************)
(* The Black-Litterman engine of src/black_litterman.py and the request    *)
(* handler of src/app.py that drives it.                                   *)
(*                                                                         *)
(* Numbers.  The engine computes in IEEE-754 doubles.  A double is         *)
(* modelled as a record [nan, v]: either NaN, or the fixed-point value     *)
(* v / Grid.  Every true division and every product of two fractions is    *)
(* rounded to the nearest grid point, as the hardware rounds to the        *)
(* nearest double; sums of grid values are exact.  Comparisons with NaN    *)
(* are false, and NaN propagates through arithmetic.                       *)
(***************************************************************************)
EXTENDS Integers, Sequences, FiniteSets, TLC

\* Resolution of the fixed-point grid that stands for the doubles.
Grid ==
  12
\* Largest raw weight of a market composition.
MaxWeight ==
  3
\* Largest number of dated rows of a price table.
MaxRows ==
  3
\* Longest view list handed to add_views.
MaxViews ==
  2

VARIABLES
  phase,          \* "start" | "ready" (an engine exists, no call pending)
                  \* | "returned" (a call has returned ret) | "failed" (__init__ raised)
  market_comp,    \* self.market_comp: [keys, w], the dict in key order
  price_data,     \* self.price_data: [columns, nrows]
  risk_aversion,  \* self.risk_aversion
  assets,         \* self.assets
  w_market,       \* self.w_market
  returns,        \* self.returns: the rows left by dropna, one number per column
  Sigma,          \* self.Sigma
  pi,             \* self.pi
  ret             \* outcome of the last call

engine == <<market_comp, price_data, risk_aversion, assets, w_market, returns, Sigma, pi>>
vars == <<phase, market_comp, price_data, risk_aversion, assets, w_market, returns, Sigma, pi, ret>>

----------------------------------------------------------------------------
\* Doubles.

NaN == [nan |-> TRUE, v |-> 0]
Num(v) == [nan |-> FALSE, v |-> v]
One == Num(Grid)
Zero == Num(0)

\* a / b for b > 0, rounded to the nearest integer (ties upward).
RoundDiv(a, b) == (2 * a + b) \div (2 * b)

FAdd(x, y) == IF x.nan \/ y.nan THEN NaN ELSE Num(x.v + y.v)
FSub(x, y) == IF x.nan \/ y.nan THEN NaN ELSE Num(x.v - y.v)
\* product of two grid values, rounded back to the grid
FMul(x, y) == IF x.nan \/ y.nan THEN NaN ELSE Num(RoundDiv(x.v * y.v, Grid))
\* product with an exact integer factor
FScale(k, x) == IF x.nan THEN NaN ELSE Num(k * x.v)
FGt(x, y) == ~x.nan /\ ~y.nan /\ x.v > y.v
FLt(x, y) == ~x.nan /\ ~y.nan /\ x.v < y.v
FLe(x, y) == ~x.nan /\ ~y.nan /\ x.v <= y.v
FGe(x, y) == ~x.nan /\ ~y.nan /\ x.v >= y.v

\* numpy's true division of two integers: 0/0 is nan (a RuntimeWarning, no
\* exception).  The compositions drawn here are nonnegative, so a zero total
\* means every numerator is zero as well.
TrueDiv(a, b) == IF b = 0 THEN NaN ELSE Num(RoundDiv(a * Grid, b))

RECURSIVE SumInt(_)
SumInt(s) == IF s = <<>> THEN 0 ELSE Head(s) + SumInt(Tail(s))

\* ndarray.sum() over doubles
RECURSIVE FSum(_)
FSum(s) == IF s = <<>> THEN Zero ELSE FAdd(Head(s), FSum(Tail(s)))

AnyNaN(s) == \E i \in DOMAIN s : s[i].nan

Range(s) == {s[i] : i \in DOMAIN s}

----------------------------------------------------------------------------
\* Inputs.

Names == {"A", "B", "C"}

\* Key orders of the market composition.  Only the order relative to the
\* price table's columns matters, so the composition's keys are taken in
\* alphabetical order and the columns are permuted.
KeyOrders == {<<"A", "B">>, <<"A", "B", "C">>}

\* market_composition: a dict of nonnegative weights, in key order.
Compositions ==
  UNION {{[keys |-> k, w |-> w] : w \in [1..Len(k) -> 0..MaxWeight]} : k \in KeyOrders}

\* Column orders of the price table: the composition's own order, a
\* permutation of it, a table that lacks an asset of the composition, and a
\* table with a column more or less than the composition has keys.
ColumnOrders ==
  {<<"A", "B">>, <<"B", "A">>, <<"A", "C">>,
   <<"A", "B", "C">>, <<"C", "A", "B">>}

\* Prices are powers of two, price = 2^Exponent, one history per asset, so
\* that the log return of a date is the difference of two exponents (in
\* units of ln 2).
History(name) ==
  CASE name = "A" -> <<0, 1, 3, 4, 4, 6, 7>>
    [] name = "B" -> <<0, 2, 2, 5, 6, 6, 9>>
    [] OTHER      -> <<0, 0, 3, 3, 5, 8, 8>>

PriceTables == {[columns |-> c, nrows |-> n] : c \in ColumnOrders, n \in 1..MaxRows}

RiskAversions == {3}

----------------------------------------------------------------------------
\* Return/covariance estimator.

\* np.log(price_data / price_data.shift(1)): the first row has no previous
\* row and is NaN in every column.
LogReturnRow(pd, t) ==
  [c \in 1..Len(pd.columns) |->
     IF t = 1 THEN NaN
     ELSE Num(Grid * (History(pd.columns[c])[t] - History(pd.columns[c])[t - 1]))]

\* DataFrame.dropna(): the rows that hold a NaN are dropped.
RECURSIVE DropNa(_)
DropNa(rows) ==
  IF rows = <<>> THEN <<>>
  ELSE IF AnyNaN(Head(rows)) THEN DropNa(Tail(rows))
       ELSE <<Head(rows)>> \o DropNa(Tail(rows))

compute_returns(pd) == DropNa([t \in 1..pd.nrows |-> LogReturnRow(pd, t)])

\* annualisation factor of compute_covariance
TradingDays ==
  252

\* Sample covariance of columns i and j over n rows, with n - 1 in the
\* denominator: NaN when fewer than two rows are left.
SampleCov(rows, i, j) ==
  LET n   == Len(rows)
      sx  == SumInt([t \in 1..n |-> rows[t][i].v])
      sy  == SumInt([t \in 1..n |-> rows[t][j].v])
      sxy == SumInt([t \in 1..n |-> rows[t][i].v * rows[t][j].v])
  IN  IF n < 2 THEN NaN
      ELSE Num(RoundDiv(n * sxy - sx * sy, Grid * n * (n - 1)))

\* returns.cov().values * 252: one row and one column per column of the
\* price table, in the table's column order.
compute_covariance(rows, ncols) ==
  [i \in 1..ncols |-> [j \in 1..ncols |-> FScale(TradingDays, SampleCov(rows, i, j))]]

----------------------------------------------------------------------------
\* Construction.

\* w_market / np.sum(w_market)
Normalize(w) == [i \in 1..Len(w) |-> TrueDiv(w[i], SumInt(w))]

\* Sigma.dot(w): defined when Sigma has as many columns as w has entries.
Dot(M, w) == [i \in 1..Len(M) |-> FSum([j \in 1..Len(w) |-> FMul(M[i][j], w[j])])]

\* risk_aversion * Sigma.dot(w_market)
EquilibriumReturns(lambda, S, w) == [i \in 1..Len(S) |-> FScale(lambda, Dot(S, w)[i])]

NoCall == [op |-> "none"]

Init ==
  /\ phase = "start"
  /\ market_comp = [keys |-> <<>>, w |-> <<>>]
  /\ price_data = [columns |-> <<>>, nrows |-> 0]
  /\ risk_aversion = 0
  /\ assets = <<>>
  /\ w_market = <<>>
  /\ returns = <<>>
  /\ Sigma = <<>>
  /\ pi = <<>>
  /\ ret = NoCall

\* BlackLitterman.__init__.  The only statement that can raise is the
\* product Sigma.dot(w_market), which numpy refuses when the covariance
\* matrix (one row per price column) and the weight vector (one entry per
\* composition key) differ in size.
Construct(mc, pd, lambda) ==
  /\ phase = "start"
  /\ LET w == Normalize(mc.w)
         r == compute_returns(pd)
         S == compute_covariance(r, Len(pd.columns))
     IN  IF Len(pd.columns) # Len(mc.keys)
         THEN /\ phase' = "failed"
              /\ ret' = [op |-> "init", status |-> "error", error |-> "ValueError",
                         message |-> "shapes not aligned",
                         market_composition |-> mc, price_table |-> pd]
              /\ UNCHANGED engine
         ELSE /\ phase' = "ready"
              /\ market_comp' = mc
              /\ price_data' = pd
              /\ risk_aversion' = lambda
              /\ assets' = mc.keys
              /\ w_market' = w
              /\ returns' = r
              /\ Sigma' = S
              /\ pi' = EquilibriumReturns(lambda, S, w)
              /\ ret' = [op |-> "init", status |-> "ok"]

----------------------------------------------------------------------------
\* Views.  A Python string is the sequence of its characters; asset names
\* are one character long, so that the asset "A" is the string <<"A">>.

Str(name) == <<name>>

\* The 'assets' entry of a view: absent, None, a string, a list of strings,
\* or a value of another type (a dict, a number), empty or not.
AssetsAbsent == [t |-> "absent", str |-> <<>>, list |-> <<>>, truthy |-> FALSE]
AssetsNone == [t |-> "none", str |-> <<>>, list |-> <<>>, truthy |-> FALSE]
AssetsStr(chars) == [t |-> "str", str |-> chars, list |-> <<>>, truthy |-> chars # <<>>]
AssetsList(l) == [t |-> "list", str |-> <<>>, list |-> l, truthy |-> l # <<>>]
AssetsOther(truthy) == [t |-> "other", str |-> <<>>, list |-> <<>>, truthy |-> truthy]

Absent == [given |-> "absent", v |-> 0]
PyNone == [given |-> "none", v |-> 0]
Given(v) == [given |-> "num", v |-> v]

View(a, e, c) == [assets |-> a, excess_return |-> e, confidence |-> c]

\* The views a request may carry.  Excess returns are grid values;
\* confidences are counted in units of the default confidence, 1e-4.
Views ==
  { View(AssetsAbsent, Absent, Absent),                                   \* {}
    View(AssetsAbsent, Given(2), Given(5)),                               \* no 'assets' key
    View(AssetsNone, Given(2), Absent),                                   \* 'assets': None
    View(AssetsStr(<<>>), Absent, Given(5)),                              \* 'assets': ""
    View(AssetsList(<<>>), Given(2), Absent),                             \* 'assets': []
    View(AssetsStr(<<" ", ",", " ">>), Given(2), Absent),                 \* 'assets': " , "
    View(AssetsStr(<<" ", "A", " ", ",", "C", ",">>), PyNone, Given(5)),  \* 'assets': " A ,C,"
    View(AssetsList(<<Str("A"), Str("X"), Str("A")>>), Given(-3), Absent),\* ['A', 'X', 'A']
    View(AssetsStr(<<"X", ",", "A", "B">>), Given(2), Absent),            \* 'assets': "X,AB"
    View(AssetsList(<<Str("B")>>), Absent, Given(0)),                     \* ['B'], confidence 0
    View(AssetsOther(TRUE), Given(2), Absent),                            \* 'assets': {'A': 1}
    View(AssetsOther(FALSE), Given(2), Absent) }                          \* 'assets': {}

RECURSIVE SeqsUpTo(_, _)
SeqsUpTo(S, n) ==
  IF n = 0 THEN {<<>>}
  ELSE SeqsUpTo(S, n - 1) \cup {Append(q, x) : q \in {r \in SeqsUpTo(S, n - 1) : Len(r) = n - 1}, x \in S}

ViewLists == SeqsUpTo(Views, MaxViews)

\* bool(view) of a dict: false exactly when it has no key.
Truthy(view) ==
  \/ view.assets.t # "absent"
  \/ view.excess_return.given # "absent"
  \/ view.confidence.given # "absent"

\* str.split(','): the fragments between the commas, empty ones included.
RECURSIVE Split(_)
Split(chars) ==
  IF \A i \in DOMAIN chars : chars[i] # ","
  THEN <<chars>>
  ELSE LET i == CHOOSE k \in DOMAIN chars :
                  chars[k] = "," /\ \A j \in 1..(k - 1) : chars[j] # ","
       IN  <<SubSeq(chars, 1, i - 1)>> \o Split(SubSeq(chars, i + 1, Len(chars)))

\* str.strip(): leading and trailing blanks removed.
RECURSIVE Strip(_)
Strip(chars) ==
  IF chars = <<>> THEN <<>>
  ELSE IF Head(chars) = " " THEN Strip(Tail(chars))
  ELSE IF chars[Len(chars)] = " " THEN Strip(SubSeq(chars, 1, Len(chars) - 1))
  ELSE chars

\* [asset.strip() for asset in asset_input.split(',') if asset.strip()]
RECURSIVE StripAll(_)
StripAll(frags) ==
  IF frags = <<>> THEN <<>>
  ELSE IF Strip(Head(frags)) = <<>> THEN StripAll(Tail(frags))
       ELSE <<Strip(Head(frags))>> \o StripAll(Tail(frags))

\* [i for i, asset in enumerate(self.assets) if asset in asset_list]
Indices(universe, asset_list) ==
  {i \in DOMAIN universe : \E j \in DOMAIN asset_list : asset_list[j] = Str(universe[i])}

\* confidence when the view gives none
DefaultConfidence ==
  1

Raise(kind, msg) == [status |-> "error", error |-> kind, message |-> msg]
ReturnNone == [status |-> "none"]

\* Mutant of Encode: an excess_return of None is not replaced by 0, and the
\* sum with it is no number.
EncodeNoneExcess(universe, eq, view, asset_list) ==
  LET indices == Indices(universe, asset_list)
      row == [i \in DOMAIN universe |->
                IF i \in indices THEN TrueDiv(1, Cardinality(indices)) ELSE Zero]
      excess == IF view.excess_return.given = "num" THEN Num(view.excess_return.v)
                ELSE IF view.excess_return.given = "absent" THEN Zero
                ELSE NaN
      conf == IF view.confidence.given = "num" THEN Num(view.confidence.v)
              ELSE IF view.confidence.given = "absent" THEN Num(DefaultConfidence)
              ELSE NaN
  IN  IF indices = {}
      THEN Raise("ValueError", "Nessun asset della view corrisponde agli asset del portafoglio.")
      ELSE [status |-> "ok",
            P |-> <<row>>,
            Q |-> <<FAdd(FSum([i \in DOMAIN universe |-> FMul(row[i], eq[i])]), excess)>>,
            Omega |-> <<conf>>]

\* Mutant of Encode: the basket weight is one over the number of names the
\* view lists, matched or not.
EncodePerName(universe, eq, view, asset_list) ==
  LET indices == Indices(universe, asset_list)
      row == [i \in DOMAIN universe |->
                IF i \in indices THEN TrueDiv(1, Len(asset_list)) ELSE Zero]
      excess == IF view.excess_return.given = "num" THEN Num(view.excess_return.v) ELSE Zero
      conf == IF view.confidence.given = "num" THEN Num(view.confidence.v)
              ELSE IF view.confidence.given = "absent" THEN Num(DefaultConfidence)
              ELSE NaN
  IN  IF indices = {}
      THEN Raise("ValueError", "Nessun asset della view corrisponde agli asset del portafoglio.")
      ELSE [status |-> "ok",
            P |-> <<row>>,
            Q |-> <<FAdd(FSum([i \in DOMAIN universe |-> FMul(row[i], eq[i])]), excess)>>,
            Omega |-> <<conf>>]

\* The encoded view: P is 1 x n_assets, Q has one entry, Omega is 1 x 1.
Encode(universe, eq, view, asset_list) ==
  LET indices == Indices(universe, asset_list)
      row == [i \in DOMAIN universe |->
                IF i \in indices THEN TrueDiv(1, Cardinality(indices)) ELSE Zero]
      excess == IF view.excess_return.given = "num" THEN Num(view.excess_return.v) ELSE Zero
      \* view.get('confidence', 0.0001): the default stands in for a missing
      \* key only; a None is stored as it is, and is no number
      conf == IF view.confidence.given = "num" THEN Num(view.confidence.v)
              ELSE IF view.confidence.given = "absent" THEN Num(DefaultConfidence)
              ELSE NaN
  IN  IF indices = {}
      THEN Raise("ValueError", "Nessun asset della view corrisponde agli asset del portafoglio.")
      ELSE [status |-> "ok",
            P |-> <<row>>,
            Q |-> <<FAdd(FSum([i \in DOMAIN universe |-> FMul(row[i], eq[i])]), excess)>>,
            Omega |-> <<conf>>]

\* Mutant of add_view: an asset string that holds no name after splitting is
\* refused, as the first definition of the class refuses an empty list.
add_view_strict(universe, eq, view) ==
  IF ~Truthy(view) THEN ReturnNone
  ELSE IF view.assets.t \in {"absent", "none"} THEN ReturnNone
  ELSE IF view.assets.t = "str" /\ view.assets.str = <<>> THEN ReturnNone
  ELSE IF view.assets.t = "str"
       THEN IF StripAll(Split(view.assets.str)) = <<>>
            THEN Raise("ValueError", "La view deve specificare almeno un asset in 'assets'.")
            ELSE Encode(universe, eq, view, StripAll(Split(view.assets.str)))
  ELSE IF view.assets.t = "list"
       THEN IF view.assets.list = <<>> THEN ReturnNone
            ELSE Encode(universe, eq, view, view.assets.list)
  ELSE Raise("ValueError", "Il campo 'assets' deve essere una stringa o una lista.")

\* BlackLitterman.add_view (the second definition of the class, which
\* replaces the first).
add_view(universe, eq, view) ==
  IF ~Truthy(view) THEN ReturnNone
  ELSE IF view.assets.t \in {"absent", "none"} THEN ReturnNone
  ELSE IF view.assets.t = "str" /\ view.assets.str = <<>> THEN ReturnNone
  ELSE IF view.assets.t = "str"
       THEN IF StripAll(Split(view.assets.str)) = <<>> THEN ReturnNone
            ELSE Encode(universe, eq, view, StripAll(Split(view.assets.str)))
  ELSE IF view.assets.t = "list"
       THEN IF view.assets.list = <<>> THEN ReturnNone
            ELSE Encode(universe, eq, view, view.assets.list)
  ELSE Raise("ValueError", "Il campo 'assets' deve essere una stringa o una lista.")

\* The loop of add_views: the views are encoded in input order, a view that
\* encodes to None is skipped, and the first view that raises ends the call.
RECURSIVE EncodeAll(_, _, _)
EncodeAll(universe, eq, views) ==
  IF views = <<>> THEN [status |-> "ok", list |-> <<>>]
  ELSE LET result == add_view(universe, eq, Head(views))
       IN  IF result.status = "error" THEN result
           ELSE LET rest == EncodeAll(universe, eq, Tail(views))
                IN  IF rest.status = "error" THEN rest
                    ELSE IF result.status = "none" THEN rest
                    ELSE [status |-> "ok", list |-> <<result>> \o rest.list]

\* (None, None, None)
NoViews == [status |-> "empty", P |-> <<>>, Q |-> <<>>, Omega |-> <<>>]

\* Loop of the mutant add_views_lenient: a view that raises is skipped like
\* a view that encodes to None.
RECURSIVE EncodeAllLenient(_, _, _)
EncodeAllLenient(universe, eq, views) ==
  IF views = <<>> THEN [status |-> "ok", list |-> <<>>]
  ELSE LET result == add_view(universe, eq, Head(views))
           rest == EncodeAllLenient(universe, eq, Tail(views))
       IN  IF result.status = "ok" THEN [status |-> "ok", list |-> <<result>> \o rest.list]
           ELSE rest

\* Mutant of add_views: invalid views are dropped and the rest is stacked.
add_views_lenient(universe, eq, views) ==
  LET enc == EncodeAllLenient(universe, eq, views)
      n_views == Len(enc.list)
  IN  IF enc.list = <<>> THEN NoViews
      ELSE [status |-> "ok",
            P |-> [k \in 1..n_views |-> enc.list[k].P[1]],
            Q |-> [k \in 1..n_views |-> enc.list[k].Q[1]],
            Omega |-> [k \in 1..n_views |-> [l \in 1..n_views |->
                         IF k = l THEN enc.list[k].Omega[1] ELSE Zero]]]

\* Loop of the mutant add_views_reversed: the encoded views are collected
\* last first.
RECURSIVE EncodeAllReversed(_, _, _)
EncodeAllReversed(universe, eq, views) ==
  IF views = <<>> THEN [status |-> "ok", list |-> <<>>]
  ELSE LET result == add_view(universe, eq, Head(views))
       IN  IF result.status = "error" THEN result
           ELSE LET rest == EncodeAllReversed(universe, eq, Tail(views))
                IN  IF rest.status = "error" THEN rest
                    ELSE IF result.status = "none" THEN rest
                    ELSE [status |-> "ok", list |-> rest.list \o <<result>>]

\* Mutant of add_views: the rows are stacked in reverse input order.
add_views_reversed(universe, eq, views) ==
  LET enc == EncodeAllReversed(universe, eq, views)
      n_views == Len(enc.list)
  IN  IF enc.status = "error" THEN enc
      ELSE IF enc.list = <<>> THEN NoViews
      ELSE [status |-> "ok",
            P |-> [k \in 1..n_views |-> enc.list[k].P[1]],
            Q |-> [k \in 1..n_views |-> enc.list[k].Q[1]],
            Omega |-> [k \in 1..n_views |-> [l \in 1..n_views |->
                         IF k = l THEN enc.list[k].Omega[1] ELSE Zero]]]

\* BlackLitterman.add_views
add_views(universe, eq, views) ==
  LET enc == EncodeAll(universe, eq, views)
      n_views == Len(enc.list)
  IN  IF enc.status = "error" THEN enc
      ELSE IF enc.list = <<>> THEN NoViews
      ELSE [status |-> "ok",
            P |-> [k \in 1..n_views |-> enc.list[k].P[1]],
            Q |-> [k \in 1..n_views |-> enc.list[k].Q[1]],
            Omega |-> [k \in 1..n_views |-> [l \in 1..n_views |->
                         IF k = l THEN enc.list[k].Omega[1] ELSE Zero]]]

\* A vector of expected returns as the engine hands it out.  "pi" is the
\* engine's own array self.pi.  "blend" is the result of the master formula
\*     pi + tau Sigma P^T (P tau Sigma P^T + Omega)^-1 (Q - P pi),
\* whose linear algebra is not evaluated here: the term records the
\* arguments the formula was applied to.
PiItself(eq) == [kind |-> "pi", base |-> eq, P |-> <<>>, Q |-> <<>>, Omega |-> <<>>]
Blend(eq, P, Q, Omega) == [kind |-> "blend", base |-> eq, P |-> P, Q |-> Q, Omega |-> Omega]

\* np.linalg.inv(P tau Sigma P^T + Omega) raises LinAlgError on a singular
\* matrix.  Sigma is a sample covariance (positive semidefinite), so the
\* matrix is positive definite and inv succeeds when every Omega[k][k] > 0
\* and nothing is NaN; otherwise either outcome is possible.
InvOutcomes(S, Omega) ==
  IF /\ \A k \in DOMAIN Omega : FGt(Omega[k][k], Zero)
     /\ \A i \in DOMAIN S : ~AnyNaN(S[i])
  THEN {"ok"}
  ELSE {"ok", "LinAlgError"}

\* Mutant of compute_posterior_returns: only P = None is taken for "no
\* views"; a matrix of zero rows goes through the formula.
compute_posterior_returns_none_only(eq, S, vs) ==
  IF vs.status = "empty"
  THEN {[status |-> "ok", value |-> PiItself(eq), inverted |-> FALSE]}
  ELSE {[status |-> "ok", value |-> Blend(eq, vs.P, vs.Q, vs.Omega), inverted |-> TRUE]}

\* BlackLitterman.compute_posterior_returns: the outcomes of one call.
\* vs.status = "empty" is P = None; vs.P = <<>> is a matrix of zero rows.
compute_posterior_returns(eq, S, vs) ==
  IF vs.status = "empty" \/ Len(vs.P) = 0
  THEN {[status |-> "ok", value |-> PiItself(eq), inverted |-> FALSE]}
  ELSE {IF o = "ok"
        THEN [status |-> "ok", value |-> Blend(eq, vs.P, vs.Q, vs.Omega), inverted |-> TRUE]
        ELSE [status |-> "error", error |-> "LinAlgError", message |-> "Singular matrix",
              inverted |-> TRUE]
        : o \in InvOutcomes(S, vs.Omega)}

\* BlackLitterman.compute_equilibrium_returns
compute_equilibrium_returns(eq) == PiItself(eq)

----------------------------------------------------------------------------
\* Bounded mean-variance optimizer.

\* max_deviation as the caller passes it: negative, zero, a quarter, one
\* and more than one.
Deviations == {Num(-(Grid \div 4)), Zero, Num(Grid \div 4), One, Num(Grid + Grid \div 4)}

\* [(1 - max_deviation) * self.w_market[i] for i in range(n)]
LowerBounds(w, d) == [i \in DOMAIN w |-> FMul(FSub(One, d), w[i])]
\* Mutant of UpperBounds: the deviation taken as an absolute amount.
UpperBoundsAbsolute(w, d) == [i \in DOMAIN w |-> FAdd(w[i], d)]

\* [(1 + max_deviation) * self.w_market[i] for i in range(n)]
UpperBounds(w, d) == [i \in DOMAIN w |-> FMul(FAdd(One, d), w[i])]

\* lower_bounds.sum() > 1 or upper_bounds.sum() < 1
Incompatible(lb, ub) == FGt(FSum(lb), One) \/ FLt(FSum(ub), One)

\* The vectors x[1..k] on the grid with lb[i] <= x[i] <= ub[i] that sum to total.
RECURSIVE BoxPoints(_, _, _, _)
BoxPoints(lb, ub, k, total) ==
  IF k = 0 THEN (IF total = 0 THEN {<<>>} ELSE {})
  ELSE UNION {{Append(x, Num(v)) : x \in BoxPoints(lb, ub, k - 1, total - v)}
              : v \in (lb[k].v)..(ub[k].v)}

\* Messages of an SLSQP run that ends without success.
SolverMessages == {"Iteration limit reached", "Positive directional derivative for linesearch"}

\* scipy.optimize.minimize(objective, init_guess, method='SLSQP', bounds,
\* constraints, options): the outcomes of one run.  The solver is a library;
\* what is modelled is its contract.  It refuses bounds with lb > ub.  It
\* may end without success, with a message, leaving an iterate in x.  When
\* it reports success, x lies within the bounds and satisfies the equality
\* constraint sum(x) = 1 (to a tolerance below the grid's resolution); which
\* of these points it returns is decided by the objective, which the model
\* leaves open.  Every iterate is computed from init_guess, so a NaN guess
\* gives NaN iterates, whose constraint residual never passes the
\* convergence test: no success from a NaN guess.
minimize(init_guess, lb, ub) ==
  IF \E i \in DOMAIN lb : FGt(lb[i], ub[i])
  THEN {[raised |-> TRUE, success |-> FALSE, message |-> "SLSQP Error: lb > ub in bounds",
         x |-> init_guess]}
  ELSE {[raised |-> FALSE, success |-> FALSE, message |-> m, x |-> init_guess]
          : m \in SolverMessages}
       \cup
       {[raised |-> FALSE, success |-> TRUE,
         message |-> "Optimization terminated successfully", x |-> x]
          : x \in IF AnyNaN(init_guess) \/ AnyNaN(lb) \/ AnyNaN(ub) THEN {}
                  ELSE BoxPoints(lb, ub, Len(lb), Grid)}

\* Mutant of AfterSolve: result.x is returned without a look at result.success.
AfterSolveUnchecked(result) ==
  IF result.raised
  THEN Raise("ValueError", result.message) @@ [solver_invoked |-> TRUE]
  ELSE [status |-> "ok", x |-> result.x, solver_invoked |-> TRUE, success |-> result.success,
        solver_message |-> result.message]

\* What compute_optimal_weights does with the result of minimize.  The
\* outcome records the solver's own verdict (result.success, result.message)
\* beside what the method returns or raises.
AfterSolve(result) ==
  IF result.raised
  THEN Raise("ValueError", result.message) @@ [solver_invoked |-> TRUE]
  ELSE IF ~result.success
  THEN Raise("RuntimeError", "Ottimizzazione fallita: " \o result.message)
         @@ [solver_invoked |-> TRUE, success |-> FALSE, solver_message |-> result.message]
  ELSE [status |-> "ok", x |-> result.x, solver_invoked |-> TRUE, success |-> TRUE,
        solver_message |-> result.message]

\* BlackLitterman.compute_optimal_weights: the outcomes of one call.  The
\* model's solver does not read mu (the objective only selects among the
\* feasible points), so mu is not a parameter here.
compute_optimal_weights(w, d) ==
  LET lower_bounds == LowerBounds(w, d)
      upper_bounds == UpperBounds(w, d)
  IN  IF Incompatible(lower_bounds, upper_bounds)
      THEN {Raise("ValueError",
                  "I vincoli sui pesi sono incompatibili: verifica il valore di max_deviation.")
              @@ [solver_invoked |-> FALSE]}
      ELSE {AfterSolve(result) : result \in minimize(w, lower_bounds, upper_bounds)}

----------------------------------------------------------------------------
\* Calls on a constructed engine, one at a time.  ret records the call, its
\* arguments and its outcome until the caller is done with it.

CallAddView(view) ==
  /\ phase = "ready"
  /\ ret' = [op |-> "add_view", view |-> view] @@ add_view(assets, pi, view)
  /\ phase' = "returned"
  /\ UNCHANGED engine

CallAddViews(views) ==
  /\ phase = "ready"
  /\ ret' = [op |-> "add_views", views |-> views] @@ add_views(assets, pi, views)
  /\ phase' = "returned"
  /\ UNCHANGED engine

\* A matrix of zero rows, as a caller may pass it for P.
ZeroRows == [status |-> "ok", P |-> <<>>, Q |-> <<>>, Omega |-> <<>>]

\* compute_posterior_returns(P, Q, Omega), called with None, with zero rows
\* or with what add_views returned for some view list.
CallPosterior(vs) ==
  /\ phase = "ready"
  /\ \E out \in compute_posterior_returns(pi, Sigma, vs) :
       ret' = [op |-> "compute_posterior_returns", viewset |-> vs] @@ out
  /\ phase' = "returned"
  /\ UNCHANGED engine

CallEquilibrium ==
  /\ phase = "ready"
  /\ ret' = [op |-> "compute_equilibrium_returns", status |-> "ok",
             value |-> compute_equilibrium_returns(pi)]
  /\ phase' = "returned"
  /\ UNCHANGED engine

\* The request handler of app.py between construction and optimization:
\*   if views: P, Q, Omega = add_views(views); mu_post = compute_posterior_returns(P, Q, Omega)
\*   else:     mu_post = compute_equilibrium_returns()
\* An exception of either call ends the request.
HandlerReturns(views) ==
  /\ phase = "ready"
  /\ LET vs == add_views(assets, pi, views)
     IN  \E out \in (IF views = <<>>
                     THEN {[status |-> "ok", value |-> compute_equilibrium_returns(pi),
                            inverted |-> FALSE]}
                     ELSE IF vs.status = "error" THEN {vs @@ [inverted |-> FALSE]}
                     ELSE compute_posterior_returns(pi, Sigma, vs)) :
           ret' = [op |-> "handler_returns", views |-> views] @@ out
  /\ phase' = "returned"
  /\ UNCHANGED engine

\* compute_optimal_weights(mu, max_deviation), for any mu: the engine's own
\* pi, a posterior, or another vector of expected returns.
CallOptimize(d) ==
  /\ phase = "ready"
  /\ \E out \in compute_optimal_weights(w_market, d) :
       ret' = [op |-> "compute_optimal_weights", max_deviation |-> d] @@ out
  /\ phase' = "returned"
  /\ UNCHANGED engine

\* The caller is done with the last result; the engine lives on.
Done ==
  /\ phase = "returned"
  /\ phase' = "ready"
  /\ ret' = NoCall
  /\ UNCHANGED engine

\* The caller writes into the array the last call handed back, mu[0] = 1.0
\* or weights[0] = 1.0, once per result.  compute_equilibrium_returns, and
\* compute_posterior_returns without views, return self.pi itself, not a
\* copy: a write into that array is a write into the engine's pi.  The
\* result of the master formula and the solver's result.x are new arrays.
CallerWrites ==
  /\ phase = "returned"
  /\ ret.op \in {"compute_equilibrium_returns", "compute_posterior_returns",
                 "compute_optimal_weights"}
  /\ ret.status = "ok"
  /\ "written" \notin DOMAIN ret
  /\ phase' = phase
  /\ IF ret.op = "compute_optimal_weights"
     THEN /\ ret' = [ret EXCEPT !.x[1] = One] @@ [written |-> 1]
          /\ pi' = pi
     ELSE IF ret.value.kind = "pi"
     THEN /\ pi' = [pi EXCEPT ![1] = One]
          /\ ret' = [ret EXCEPT !.value.base = pi'] @@ [written |-> 1]
     ELSE /\ ret' = ret @@ [written |-> 1]
          /\ pi' = pi
  /\ UNCHANGED <<market_comp, price_data, risk_aversion, assets, w_market, returns, Sigma>>

DoConstruct ==
  \E mc \in Compositions, pd \in PriceTables, lambda \in RiskAversions : Construct(mc, pd, lambda)

\* The view calls: add_view, add_views, compute_posterior_returns and the
\* handler's use of them.
ViewCalls ==
  \/ \E view \in Views : CallAddView(view)
  \/ \E views \in ViewLists : CallAddViews(views)
  \/ \E vs \in {NoViews, ZeroRows} : CallPosterior(vs)
  \/ /\ phase = "ready"
     /\ \E views \in ViewLists : /\ add_views(assets, pi, views).status = "ok"
                                 /\ CallPosterior(add_views(assets, pi, views))
  \/ \E views \in ViewLists : HandlerReturns(views)

OptimizeCalls == \E d \in Deviations : CallOptimize(d)

Next ==
  \/ DoConstruct
  \/ CallEquilibrium
  \/ ViewCalls
  \/ OptimizeCalls
  \/ CallerWrites
  \/ Done

Spec == Init /\ [][Next]_vars

\* The engine alone: construction and the read of its equilibrium returns.
NextEngine == DoConstruct \/ CallEquilibrium \/ Done
SpecEngine == Init /\ [][NextEngine]_vars

\* The engine and its view calls.
NextViews == DoConstruct \/ ViewCalls \/ Done
SpecViews == Init /\ [][NextViews]_vars

\* The engine and the encoding of single views.
NextAddView == DoConstruct \/ (\E view \in Views : CallAddView(view)) \/ Done
SpecAddView == Init /\ [][NextAddView]_vars

\* The engine, every kind of call on it, and a caller that writes into the
\* results it is handed.
NextOwnership ==
  \/ DoConstruct
  \/ CallEquilibrium
  \/ \E view \in Views : CallAddView(view)
  \/ \E view \in Views : CallAddViews(<<view>>)
  \/ \E vs \in {NoViews, ZeroRows} : CallPosterior(vs)
  \/ /\ phase = "ready"
     /\ \E view \in Views : /\ add_views(assets, pi, <<view>>).status = "ok"
                             /\ CallPosterior(add_views(assets, pi, <<view>>))
  \/ OptimizeCalls
  \/ CallerWrites
  \/ Done
SpecOwnership == Init /\ [][NextOwnership]_vars

\* The engine and its optimizer.
NextOptimize == DoConstruct \/ OptimizeCalls \/ Done
SpecOptimize == Init /\ [][NextOptimize]_vars

----------------------------------------------------------------------------
\* Properties.

Constructed == phase \in {"ready", "returned"}
Returned(op) == phase = "returned" /\ ret.op = op

Abs(n) == IF n < 0 THEN -n ELSE n

\* C1: every weight vector compute_optimal_weights returns, with deviation
\* bound d, has one weight per asset, each within
\* [(1 - d) w_market[i], (1 + d) w_market[i]], and the weights sum to 1.
C1_DeviationBoundRespected ==
  (Returned("compute_optimal_weights") /\ ret.status = "ok") =>
     /\ Len(ret.x) = Len(assets)
     /\ \A i \in DOMAIN assets :
          /\ FLe(FMul(FSub(One, ret.max_deviation), w_market[i]), ret.x[i])
          /\ FLe(ret.x[i], FMul(FAdd(One, ret.max_deviation), w_market[i]))
     /\ FSum(ret.x) = One

\* C1 witness: a solved call with a quarter of deviation whose weights moved
\* away from the market weights.
C1_Witness ==
  /\ Returned("compute_optimal_weights")
  /\ ret.status = "ok"
  /\ ret.max_deviation = Num(Grid \div 4)
  /\ ret.x # w_market
  /\ Len(assets) = 3

\* C2: for any market composition of nonnegative weights the engine's
\* w_market sums to 1 and keeps the input proportions (each to within the
\* rounding of one division).
C2_WeightsNormalized ==
  Constructed =>
     /\ ~AnyNaN(w_market)
     /\ Abs(FSum(w_market).v - Grid) <= Len(w_market)
     /\ \A i \in DOMAIN w_market :
          2 * Abs(w_market[i].v * SumInt(market_comp.w) - market_comp.w[i] * Grid)
            <= SumInt(market_comp.w)

\* C3: compute_posterior_returns called with P = None or with a P of zero
\* rows returns the engine's pi itself, without evaluating the master
\* formula or inverting a matrix.
C3_NoViewsReturnsPi ==
  (Returned("compute_posterior_returns")
     /\ (ret.viewset.status = "empty" \/ Len(ret.viewset.P) = 0)) =>
     /\ ret.status = "ok"
     /\ ret.value.kind = "pi"
     /\ ret.value.base = pi
     /\ ~ret.inverted

\* C3 witness: the call with a P of zero rows on an engine whose pi is finite.
C3_Witness ==
  /\ Returned("compute_posterior_returns")
  /\ ret.viewset = ZeroRows
  /\ ret.status = "ok"
  /\ ~AnyNaN(pi)
  /\ \E i \in DOMAIN pi : pi[i] # Zero

\* The asset field of a view is empty or absent: the view is an empty dict,
\* has no 'assets', or its 'assets' is None, an empty string, an empty list
\* or a string of commas and blanks only.
EmptyAssetField(view) ==
  \/ view.assets.t \in {"absent", "none"}
  \/ view.assets.t = "str" /\ \A k \in DOMAIN view.assets.str : view.assets.str[k] \in {",", " "}
  \/ view.assets.t = "list" /\ view.assets.list = <<>>

\* C4: for a view list whose views all have an empty or absent asset field,
\* add_views returns (None, None, None) without raising, as it does for the
\* empty list, and the returns the handler computes from it are the
\* equilibrium returns, as for a request without views.
C4_EmptyViewsAreNoViews ==
  /\ (Returned("add_views") /\ \A k \in DOMAIN ret.views : EmptyAssetField(ret.views[k])) =>
        /\ ret.status = "empty"
        /\ <<ret.P, ret.Q, ret.Omega>> = <<<<>>, <<>>, <<>>>>
  /\ (Returned("handler_returns") /\ \A k \in DOMAIN ret.views : EmptyAssetField(ret.views[k])) =>
        /\ ret.status = "ok"
        /\ ret.value = compute_equilibrium_returns(pi)
        /\ ~ret.inverted

\* C4 witness: the handler has served a list of two views, one with a string
\* of commas and blanks and one with an empty list, on an engine with a
\* finite pi.
C4_Witness ==
  /\ Returned("handler_returns")
  /\ Len(ret.views) = 2
  /\ ret.views[1].assets.t = "str" /\ ret.views[1].assets.str # <<>>
  /\ ret.views[2].assets.t = "list"
  /\ \A k \in DOMAIN ret.views : EmptyAssetField(ret.views[k])
  /\ ret.status = "ok"
  /\ ~AnyNaN(pi)

\* The names a view gives, whatever the type of its asset field.
NamesGiven(view) ==
  IF view.assets.t = "str" THEN Range(StripAll(Split(view.assets.str)))
  ELSE IF view.assets.t = "list" THEN Range(view.assets.list)
  ELSE {}

\* An asset specification is empty: absent, None, or a value without
\* content (an empty string, list or other container, or a string of commas
\* and blanks only).
EmptySpecification(view) ==
  \/ EmptyAssetField(view)
  \/ view.assets.t = "other" /\ ~view.assets.truthy

\* C5: add_view raises whenever the asset specification is non-empty but
\* names no asset of the universe, and whenever the asset field is non-empty
\* and neither a string nor a list; an empty specification is a no-op and
\* never an error.
C5_InvalidViewRaises ==
  Returned("add_view") =>
     /\ (~EmptySpecification(ret.view) /\ ret.view.assets.t \in {"str", "list"}
           /\ \A a \in NamesGiven(ret.view) : \A i \in DOMAIN assets : a # Str(assets[i]))
          => ret.status = "error"
     /\ (~EmptySpecification(ret.view) /\ ret.view.assets.t = "other") => ret.status = "error"
     /\ EmptySpecification(ret.view) => ret.status = "none"

\* C6: with max_deviation = 0 the call passes the feasibility precheck, and
\* the weights it returns are the normalized market weights.
C6_ZeroDeviationReturnsMarket ==
  (Returned("compute_optimal_weights") /\ ret.max_deviation = Zero) =>
     /\ ret.solver_invoked
     /\ ret.status = "ok" => ret.x = w_market

\* C7: the precheck runs before the solver: when the lower bounds sum to
\* more than 1 or the upper bounds to less than 1 the call ends with the
\* infeasibility error and the solver is not invoked, and the solver is
\* invoked only when sum(lower) <= 1 and sum(upper) >= 1.
C7_PrecheckBeforeSolver ==
  Returned("compute_optimal_weights") =>
     LET lower == [i \in DOMAIN w_market |-> FMul(FSub(One, ret.max_deviation), w_market[i])]
         upper == [i \in DOMAIN w_market |-> FMul(FAdd(One, ret.max_deviation), w_market[i])]
     IN  /\ (FGt(FSum(lower), One) \/ FLt(FSum(upper), One)) =>
              /\ ret.status = "error"
              /\ ret.error = "ValueError"
              /\ ~ret.solver_invoked
         /\ ret.solver_invoked => (FLe(FSum(lower), One) /\ FGe(FSum(upper), One))

\* C8: when the solver ends without success the call ends with an error
\* that carries the solver's message, and no weight vector is returned.
C8_SolverFailureIsAnError ==
  (Returned("compute_optimal_weights") /\ ret.solver_invoked /\ ~ret.success) =>
     /\ ret.status = "error"
     /\ ret.error = "RuntimeError"
     /\ ret.message = "Ottimizzazione fallita: " \o ret.solver_message
     /\ "x" \notin DOMAIN ret

\* C8 witness: the solver has run out of iterations on an engine with
\* finite market weights.
C8_Witness ==
  /\ Returned("compute_optimal_weights")
  /\ ret.solver_invoked
  /\ ~ret.success
  /\ ret.solver_message = "Iteration limit reached"
  /\ ~AnyNaN(w_market)

\* C9: construction fails whenever an asset of the market composition is
\* not a column of the price table: no engine exists in that case.
C9_MissingColumnFailsConstruction ==
  Constructed => \A i \in DOMAIN assets : assets[i] \in Range(price_data.columns)

\* The column of the price table that holds the asset.
ColumnOf(name) == CHOOSE c \in DOMAIN price_data.columns : price_data.columns[c] = name

\* C10: in every constructed engine index i of every per-asset structure
\* refers to assets[i], the i-th key of the market composition, whatever
\* the column order of the price table: Sigma[i][j] is the covariance of
\* assets[i] and assets[j], and w_market[i] is the weight of assets[i].
C10_IndicesFollowTheComposition ==
  (Constructed /\ \A i \in DOMAIN assets : assets[i] \in Range(price_data.columns)) =>
     /\ assets = market_comp.keys
     /\ Len(w_market) = Len(assets) /\ Len(Sigma) = Len(assets) /\ Len(pi) = Len(assets)
     /\ \A i \in DOMAIN assets : w_market[i] = TrueDiv(market_comp.w[i], SumInt(market_comp.w))
     /\ \A i \in DOMAIN assets : \A j \in DOMAIN assets :
          Sigma[i][j] = FScale(TradingDays, SampleCov(returns, ColumnOf(assets[i]), ColumnOf(assets[j])))

\* C11: the uncertainty of an encoded view is strictly positive: a view
\* whose confidence is zero or negative is refused, no encoded view has
\* Omega <= 0, and a view without a confidence gets the default.
C11_UncertaintyPositive ==
  Returned("add_view") =>
     /\ ret.status = "ok" => FGt(ret.Omega[1], Zero)
     /\ (ret.status = "ok" /\ ret.view.confidence.given = "absent")
          => ret.Omega[1] = Num(DefaultConfidence)
     /\ (ret.view.confidence.given = "num" /\ ret.view.confidence.v <= 0
           /\ ~EmptySpecification(ret.view))
          => ret.status = "error"

\* C12: after construction the engine's returns, Sigma and pi are never
\* changed, neither by a call nor by a caller who modifies the result a call
\* handed back.
C12_CachedStateNeverChanges ==
  [][Constructed => (returns' = returns /\ Sigma' = Sigma /\ pi' = pi)]_vars

\* C13: estimation fails whenever fewer than two return rows remain after
\* differencing the price table (a table of one or two dates): no engine
\* is constructed from such input.
C13_TooFewRowsFailsConstruction ==
  Constructed => Len(returns) >= 2

\* The positions of the universe assets that the view names.
Matched(view) == {i \in DOMAIN assets : Str(assets[i]) \in NamesGiven(view)}

\* C14: the selection row of an encoded view has one entry per asset, 1/k
\* at the positions of the universe assets the view names and 0 elsewhere,
\* k being the number of universe assets matched, whatever unknown or
\* repeated names the view lists; the row sums to 1 (to within the rounding
\* of its k entries).
C14_SelectionRowIsEqualWeighted ==
  (Returned("add_view") /\ ret.status = "ok") =>
     LET k == Cardinality(Matched(ret.view))
         row == ret.P[1]
     IN  /\ Len(ret.P) = 1
         /\ Len(row) = Len(assets)
         /\ k >= 1
         /\ \A i \in DOMAIN assets :
              row[i] = IF i \in Matched(ret.view) THEN TrueDiv(1, k) ELSE Zero
         /\ 2 * Abs(FSum(row).v - Grid) <= k

\* C14 witness: a view that lists A twice and an unknown name is encoded on
\* a universe of three assets, and its row selects A alone.
C14_Witness ==
  /\ Returned("add_view")
  /\ ret.status = "ok"
  /\ ret.view.assets.list = <<Str("A"), Str("X"), Str("A")>>
  /\ Len(assets) = 3
  /\ ret.P[1] = <<One, Zero, Zero>>

\* The excess return a view states: 0 when the key is missing or None.
ExcessOf(view) ==
  IF view.excess_return.given = "num" THEN Num(view.excess_return.v) ELSE Zero

\* C15: the target of an encoded view is Q = (selection row) . pi +
\* excess_return, the excess return being 0 when it is absent or None.
C15_TargetIsRowTimesPiPlusExcess ==
  (Returned("add_view") /\ ret.status = "ok") =>
     /\ Len(ret.Q) = 1
     /\ ret.Q[1] = FAdd(FSum([i \in DOMAIN pi |-> FMul(ret.P[1][i], pi[i])]),
                        ExcessOf(ret.view))

\* C15 witness: a view of two universe assets whose excess_return is None is
\* encoded on an engine with a finite pi, and its target is the nonzero mean
\* of the two equilibrium returns.
C15_Witness ==
  /\ Returned("add_view")
  /\ ret.status = "ok"
  /\ ret.view.excess_return.given = "none"
  /\ Cardinality(Matched(ret.view)) = 2
  /\ ~AnyNaN(pi)
  /\ ret.Q[1] # Zero
  /\ ret.Q[1] = FSum([i \in DOMAIN pi |-> FMul(ret.P[1][i], pi[i])])

\* The views of a list that add_view encodes, in input order.
RECURSIVE Surviving(_)
Surviving(views) ==
  IF views = <<>> THEN <<>>
  ELSE IF add_view(assets, pi, Head(views)).status = "ok"
       THEN <<add_view(assets, pi, Head(views))>> \o Surviving(Tail(views))
       ELSE Surviving(Tail(views))

\* C16: when m >= 1 views survive encoding, add_views returns P with m rows
\* of n_assets columns, Q of length m and Omega of size m x m; row j of P,
\* entry j of Q and Omega[j][j] come from the j-th surviving view in input
\* order, every off-diagonal entry of Omega is 0, and a skipped view leaves
\* no row.
C16_ViewsAreStackedInOrder ==
  (Returned("add_views") /\ ret.status = "ok") =>
     LET enc == Surviving(ret.views)
         m == Len(enc)
     IN  /\ m >= 1
         /\ Len(ret.P) = m /\ Len(ret.Q) = m /\ Len(ret.Omega) = m
         /\ \A j \in 1..m :
              /\ Len(ret.P[j]) = Len(assets)
              /\ Len(ret.Omega[j]) = m
              /\ ret.P[j] = enc[j].P[1]
              /\ ret.Q[j] = enc[j].Q[1]
              /\ ret.Omega[j][j] = enc[j].Omega[1]
              /\ \A l \in 1..m : l # j => ret.Omega[j][l] = Zero

\* C16 witness: two views with different rows, targets and confidences are
\* stacked on an engine with a finite pi.
C16_Witness ==
  /\ Returned("add_views")
  /\ ret.status = "ok"
  /\ Len(ret.P) = 2
  /\ ret.P[1] # ret.P[2]
  /\ ret.Q[1] # ret.Q[2]
  /\ ret.Omega[1][1] # ret.Omega[2][2]
  /\ ~AnyNaN(pi)

\* A view is invalid: its asset field is of the wrong type, or it names
\* assets and none of them is in the universe.
WrongType(view) == view.assets.t = "other"
NoMatch(view) ==
  /\ view.assets.t \in {"str", "list"}
  /\ NamesGiven(view) # {}
  /\ Matched(view) = {}
InvalidView(view) == WrongType(view) \/ NoMatch(view)

C18_PrecheckRejectsOnlyNegativeDeviations ==
  Returned("compute_optimal_weights") =>
     LET d == ret.max_deviation
         lower == LowerBounds(w_market, d)
         upper == UpperBounds(w_market, d)
     IN  /\ FSum(lower) = FSub(One, d)
         /\ FSum(upper) = FAdd(One, d)
         /\ FGe(d, Zero) => ret.solver_invoked
         /\ FLt(d, Zero) => (ret.status = "error" /\ ret.error = "ValueError"
                               /\ ~ret.solver_invoked)
         /\ (FGe(d, Zero) /\ FLt(d, One)) =>
               /\ \A i \in DOMAIN w_market :
                    FLe(lower[i], w_market[i]) /\ FLe(w_market[i], upper[i])
               /\ FSum(w_market) = One

====
